---------------------------- MODULE Spec2Model ----------------------------
(***************************************************************************)
(* Model of the Tometabolome viewer front end (src/frontend/src/App.tsx).  *)
(* The file holds two revisions of the App component: revision 1 (lines    *)
(* 20-827: upload, demo and manual-path selection) and revision 2 (lines   *)
(* 856-1546: file-browser selection).  The variable rev says which one     *)
(* runs.  Every handler is one action; an async function is split at its   *)
(* await on the network: the part before it issues a request (an element   *)
(* of inflight), the part after it is the action that completes it.        *)
(*                                                                         *)
(* Times are integers in seconds; a click or a selection on the            *)
(* chromatogram carries whole minutes, and the chromatogram samples lie on *)
(* whole minutes.  m/z values are integers in hundredths of a Da.          *)
(* JavaScript indices are kept as they are (0-based, -1 = none); the       *)
(* element of index i of a TLA+ sequence is s[i+1].                        *)
(***************************************************************************)
EXTENDS Integers, Sequences, FiniteSets, Bags, TLC

VARIABLES
    rev,             \* which revision of App runs (1 or 2)
    selectedFile,    \* useState<string>('')
    ticData,         \* TIC or Null
    chromData,       \* XIC or Null
    spectrumData,    \* MS1 spectrum or Null
    ms2Data,         \* MS2 spectrum or Null
    scanList,        \* sequence of scans
    currentScanIdx,  \* -1 or an index
    chromXRange,     \* zoom window of the chromatogram pane or Null
    msXRange,        \* zoom window of the MS1 pane or Null
    ms2XRange,       \* zoom window of the MS2 pane or Null
    loading,         \* boolean
    ms2Loading,      \* boolean
    error,           \* NoError or a message
    plotRevision,    \* counter
    integrationMode, \* boolean
    integratedArea,  \* <<>> (null) or <<area>>
    integratedPoints, \* the integrated samples [x, y] or Null
    targetMz,        \* target m/z of the extraction (Da)
    ppmTol,          \* tolerance of the extraction (ppm)
    files,           \* revision 2: the files the browser lists
    keyFile,         \* selectedFile as captured by the registered keydown handler
    inflight,        \* bag of the requests awaiting their response
    budget,          \* how many requests the session may still issue (bounds the model)
    last,            \* the step just taken (history, read by the properties only)
    snap             \* the state before the user action whose request is pending
                     \* (history, kept by SpecFailure only)

vars == <<rev, selectedFile, ticData, chromData, spectrumData, ms2Data, scanList,
          currentScanIdx, chromXRange, msXRange, ms2XRange, loading, ms2Loading,
          error, plotRevision, integrationMode, integratedArea, integratedPoints,
          targetMz, ppmTol, files, keyFile, inflight, budget, last, snap>>

----------------------------------------------------------------------------
(* Bounds of the model *)

MaxInflight == 2        \* requests awaiting their response at one time
MaxRequests == 5        \* requests of a session that starts at construction
MaxViewRequests == 2    \* requests of a session that starts with a file loaded
MaxPaneRequests == 3    \* requests of a session that looks at the three panes
MaxReselectRequests == 4 \* requests of a session that selects a second file
MaxScans == 2           \* scans of a file
MaxMin == 3             \* minutes of a run
MaxSamples == 3         \* samples of a chromatogram
MaxPeaks == 2           \* peaks of a spectrum
MaxSpectra == 1         \* requests issued while any spectrum may arrive

(* Values *)

DefaultTargetMz == 150
DefaultPpmTol == 200
Million == 1000000

Null == [null |-> TRUE]
NoError == "null"
NoFile == ""
Files == {"A", "B"}
DemoPath == "A"
RtSecs == {60 * k : k \in 1..MaxMin}
Precursor == 100 * 100
ZoomedRange == [lo |-> 1, hi |-> 2]

RECURSIVE NonDecreasing(_)
NonDecreasing(s) ==
    IF Len(s) < 2 THEN TRUE
    ELSE s[1] <= s[2] /\ NonDecreasing(Tail(s))

RtLists == UNION {{s \in [1..n -> RtSecs] : NonDecreasing(s)} : n \in 0..MaxScans}

(* The chromatograms the data service may hold for a file: samples on      *)
(* whole minutes, times non-decreasing.                                    *)
SampleSecs == {60 * k : k \in 0..MaxMin}
Intensities == {0, 10}
Chromatograms ==
    UNION {{[file |-> "A", kind |-> "tic", x |-> xs, y |-> ys] :
                xs \in {s \in [1..n -> SampleSecs] : NonDecreasing(s)},
                ys \in [1..n -> Intensities]} : n \in 0..MaxSamples}

(* The scan list the data service returns: ids dense from 0, ascending rt. *)
MkScans(rts) == [i \in 1..Len(rts) |-> [id |-> i - 1, rt |-> rts[i]]]
ScanLists == {MkScans(rts) : rts \in RtLists}

(* The two files of the data service: A has two scans, B has none. *)
ScansOf(f) == IF f = "A" THEN MkScans(<<60, 120>>) ELSE <<>>
(* Their chromatograms, as stored: x = rts (seconds), y = ints. *)
TicOf(f) == [file |-> f, kind |-> "tic",
             x |-> IF f = "A" THEN <<0, 60, 120>> ELSE <<0, 60>>,
             y |-> IF f = "A" THEN <<0, 10, 0>> ELSE <<5, 5>>]
XicOf(f) == [file |-> f, kind |-> "xic",
             x |-> IF f = "A" THEN <<0, 60, 120>> ELSE <<0, 60>>,
             y |-> IF f = "A" THEN <<0, 4, 2>> ELSE <<1, 1>>]
HasMs2Of(rt) == IF rt = 60 THEN <<>> ELSE <<Precursor>>
SpectrumOf(f, rt) == [file |-> f, rt |-> rt, has_ms2 |-> HasMs2Of(rt),
                      mzs |-> <<Precursor, 2 * Precursor>>, ints |-> <<5, 8>>]
Ms2Of(f, p, rt) == [file |-> f, rt |-> rt, precursor_mz |-> p,
                    mzs |-> <<p \div 2>>, ints |-> <<3>>]

(* Any MS1 response the data service may send for a request: up to         *)
(* MaxPeaks m/z values, ascending, with as many intensities or one less:   *)
(* the response is JSON, nothing makes the two arrays equally long.        *)
PeakMzs == {Precursor, Precursor + 9, Precursor + 10}
PeakInts == {5, 8}
SpectrumResponses(f, rt) ==
    {d \in {[file |-> f, rt |-> rt, has_ms2 |-> h, mzs |-> mzs, ints |-> ints] :
                h \in {<<>>, <<Precursor>>},
                mzs \in UNION {{s \in [1..n -> PeakMzs] : NonDecreasing(s)} : n \in 0..MaxPeaks},
                ints \in UNION {[1..n -> PeakInts] : n \in 0..MaxPeaks}} :
        Len(d.mzs) - Len(d.ints) \in {0, 1}}

----------------------------------------------------------------------------
(* The React state as one record, so that a handler is a composition of    *)
(* the setters it calls.  Cur is the state of the render whose closures    *)
(* the handlers hold; Commit stores the state a handler leaves.            *)

Cur == [selectedFile |-> selectedFile, ticData |-> ticData, chromData |-> chromData,
        spectrumData |-> spectrumData, ms2Data |-> ms2Data, scanList |-> scanList,
        currentScanIdx |-> currentScanIdx, chromXRange |-> chromXRange,
        msXRange |-> msXRange, ms2XRange |-> ms2XRange, loading |-> loading,
        ms2Loading |-> ms2Loading, error |-> error, plotRevision |-> plotRevision,
        integrationMode |-> integrationMode, integratedArea |-> integratedArea,
        integratedPoints |-> integratedPoints,
        targetMz |-> targetMz, ppmTol |-> ppmTol,
        files |-> files, inflight |-> inflight, scanListSet |-> FALSE, sent |-> {}]

(* The keydown handler is registered again when scanList or currentScanIdx *)
(* changes (the effect's dependencies); it then holds that render's        *)
(* selectedFile.                                                           *)
KeyFileAfter(s) ==
    IF s.scanListSet \/ s.currentScanIdx # currentScanIdx THEN s.selectedFile ELSE keyFile

Commit(s) ==
    /\ selectedFile' = s.selectedFile
    /\ ticData' = s.ticData
    /\ chromData' = s.chromData
    /\ spectrumData' = s.spectrumData
    /\ ms2Data' = s.ms2Data
    /\ scanList' = s.scanList
    /\ currentScanIdx' = s.currentScanIdx
    /\ chromXRange' = s.chromXRange
    /\ msXRange' = s.msXRange
    /\ ms2XRange' = s.ms2XRange
    /\ loading' = s.loading
    /\ ms2Loading' = s.ms2Loading
    /\ error' = s.error
    /\ plotRevision' = s.plotRevision
    /\ integrationMode' = s.integrationMode
    /\ integratedArea' = s.integratedArea
    /\ integratedPoints' = s.integratedPoints
    /\ targetMz' = s.targetMz
    /\ ppmTol' = s.ppmTol
    /\ files' = s.files
    /\ inflight' = s.inflight
    /\ keyFile' = KeyFileAfter(s)
    /\ budget' = budget - Cardinality(s.sent)
    /\ rev' = rev

(* fetch(...): the request is on its way *)
Send(s, r) == [s EXCEPT !.inflight = @ (+) SetToBag({r}), !.sent = @ \cup {r}]
(* the response of r has come *)
Received(s, r) == [s EXCEPT !.inflight = @ (-) SetToBag({r})]
Pending == BagToSet(inflight)
NInflight == BagCardinality(inflight)

setScanList(s, v) == [s EXCEPT !.scanList = v, !.scanListSet = TRUE]


(* What a step records of itself: its name, its argument (the completed    *)
(* request or the handler's input) and the requests it sent.               *)
Did(op, arg, s) == last' = [op |-> op, arg |-> arg, sent |-> s.sent]

(* The bounds: at most MaxInflight requests await their response, and the  *)
(* session issues at most budget more.  A handler that starts a sequence   *)
(* of n requests needs room for all of them, so that no response waits     *)
(* for room.                                                               *)
Pledged(r) == IF r.kind = "upload" THEN 2
              ELSE IF r.kind = "demo" THEN 2
              ELSE IF r.kind = "tic" /\ r.chain THEN 1
              ELSE 0
RECURSIVE PledgedIn(_)
PledgedIn(rs) ==
    IF rs = {} THEN 0
    ELSE LET r == CHOOSE x \in rs : TRUE
         IN  Pledged(r) * CopiesIn(r, inflight) + PledgedIn(rs \ {r})
(* The fields of the exploration state other than the error message and   *)
(* the loading flags.                                                      *)
Core(c) == [selectedFile |-> c.selectedFile, ticData |-> c.ticData,
            chromData |-> c.chromData, spectrumData |-> c.spectrumData,
            ms2Data |-> c.ms2Data, scanList |-> c.scanList,
            currentScanIdx |-> c.currentScanIdx, chromXRange |-> c.chromXRange,
            msXRange |-> c.msXRange, ms2XRange |-> c.ms2XRange,
            plotRevision |-> c.plotRevision, integrationMode |-> c.integrationMode,
            integratedArea |-> c.integratedArea,
            integratedPoints |-> c.integratedPoints]

DoneOps == {"uploadDone", "demoDone", "browseDone", "ticDone", "scansDone", "xicDone",
            "ms1Done", "ms2Done"}

SnapOff == [tag |-> "off", op |-> "none", arg |-> <<>>, before |-> Null, reqs |-> {}]
SnapIdle == [tag |-> "idle", op |-> "none", arg |-> <<>>, before |-> Null, reqs |-> {}]

(* snap follows one user action at a time: it is taken when the action     *)
(* sends its requests with nothing else pending, and it is settled by the  *)
(* next step when that step is the response to one of them.                *)
Snapped(op, arg, s) ==
    snap' = IF snap.tag = "off" THEN snap
            ELSE IF op \notin DoneOps /\ s.sent # {} /\ inflight = EmptyBag
            THEN [tag |-> "issued", op |-> op, arg |-> arg, before |-> Core(Cur),
                  reqs |-> s.sent]
            ELSE IF op \in DoneOps /\ snap.tag = "issued" /\ arg.r \in snap.reqs
            THEN [snap EXCEPT !.tag = "settled"]
            ELSE SnapIdle

CanSend(now, later) ==
    /\ NInflight + now <= MaxInflight
    /\ PledgedIn(BagToSet(inflight)) + now + later <= budget

----------------------------------------------------------------------------
(* Requests *)

UploadReq(f) == [kind |-> "upload", file |-> f]
DemoReq == [kind |-> "demo"]
TicReq(f, chain) == [kind |-> "tic", file |-> f, chain |-> chain]
ScansReq(f, chain) == [kind |-> "scans", file |-> f, chain |-> chain]
XicReq(f, lo, hi) == [kind |-> "xic", file |-> f, min_mz |-> lo, max_mz |-> hi]
Ms1Req(f, rt, scans) == [kind |-> "ms1", file |-> f, rt |-> rt, scans |-> scans]
Ms2Req(f, p, rt) == [kind |-> "ms2", file |-> f, precursor |-> p, rt |-> rt]
BrowseReq == [kind |-> "browse"]

----------------------------------------------------------------------------
(* fetchTic and fetchScanList.  chain = TRUE marks the calls handleFileUpload *)
(* awaits one after the other: the scan list is then requested by the step   *)
(* that completes the TIC request.                                           *)

fetchTic(s, filepath, chain) ==
    Send([s EXCEPT !.loading = TRUE, !.chromXRange = Null], TicReq(filepath, chain))

fetchScanList(s, filepath, chain) ==
    Send(IF rev = 1 THEN [s EXCEPT !.loading = TRUE] ELSE s, ScansReq(filepath, chain))

fetchTicDone(s, r, ok) ==
    LET s1 == Received(s, r)
        s2 == IF ok
              THEN [s1 EXCEPT !.ticData = TicOf(r.file), !.plotRevision = @ + 1]
              ELSE [s1 EXCEPT !.error = "Failed to get TIC"]
        s3 == [s2 EXCEPT !.loading = FALSE]
    IN  IF r.chain THEN fetchScanList(s3, r.file, TRUE) ELSE s3

fetchScanListDone(s, r, ok, data) ==
    LET s1 == Received(s, r)
        s2 == IF ok THEN setScanList(s1, data) ELSE s1
        s3 == IF rev = 1 THEN [s2 EXCEPT !.loading = FALSE] ELSE s2
    IN  IF r.chain THEN [s3 EXCEPT !.loading = FALSE] ELSE s3

----------------------------------------------------------------------------
(* File selection *)

handleFileUpload(s, f) ==
    IF f = NoFile THEN s ELSE
    LET s1 == [s EXCEPT !.selectedFile = NoFile, !.ticData = Null, !.chromData = Null,
                        !.spectrumData = Null, !.currentScanIdx = -1]
        s2 == setScanList(s1, <<>>)
        s3 == [s2 EXCEPT !.loading = TRUE, !.error = NoError]
    IN  Send(s3, UploadReq(f))

handleFileUploadDone(s, r, ok) ==
    LET s1 == Received(s, r)
    IN  IF ok
        THEN fetchTic([s1 EXCEPT !.selectedFile = r.file], r.file, TRUE)
        ELSE [s1 EXCEPT !.error = "Upload Error: Upload failed.", !.loading = FALSE]

loadDemoData(s) ==
    Send([s EXCEPT !.loading = TRUE, !.error = NoError], DemoReq)

loadDemoDataDone(s, r, ok) ==
    LET s1 == Received(s, r)
        s2 == [s1 EXCEPT !.selectedFile = DemoPath, !.ticData = Null, !.chromData = Null,
                         !.spectrumData = Null, !.currentScanIdx = -1]
        s3 == setScanList(s2, <<>>)
        s4 == fetchScanList(fetchTic(s3, DemoPath, FALSE), DemoPath, FALSE)
    IN  IF ok
        THEN [s4 EXCEPT !.loading = FALSE]
        ELSE [s1 EXCEPT !.error = "Demo file not available.", !.loading = FALSE]

handleManualPathSubmit(s, manualPath) ==
    IF manualPath # NoFile
    THEN fetchScanList(fetchTic([s EXCEPT !.selectedFile = manualPath], manualPath, FALSE),
                       manualPath, FALSE)
    ELSE s

handleFileSelect(s, fullPath) ==
    LET s1 == [s EXCEPT !.selectedFile = fullPath, !.chromData = Null,
                        !.spectrumData = Null, !.currentScanIdx = -1]
        s2 == setScanList(s1, <<>>)
    IN  fetchScanList(fetchTic(s2, fullPath, FALSE), fullPath, FALSE)

fetchDirectory(s) ==
    Send([s EXCEPT !.loading = TRUE, !.error = NoError], BrowseReq)

fetchDirectoryDone(s, r, ok) ==
    LET s1 == Received(s, r)
        s2 == IF ok THEN [s1 EXCEPT !.files = Files]
              ELSE [s1 EXCEPT !.error = "Failed to load directory."]
    IN  [s2 EXCEPT !.loading = FALSE]

----------------------------------------------------------------------------
(* Extracted chromatogram.  targetMz is in Da and ppmTol in ppm; a bound   *)
(* of the mass window is kept in millionths of a Da, so that               *)
(* targetMz - targetMz * (ppmTol / 1e6) is exact.                          *)

(* A variant that extracts the window of the initial inputs. *)
fetchChromatogramInitialWindow(s, c) ==
    IF c.selectedFile = NoFile THEN s
    ELSE LET delta == DefaultTargetMz * DefaultPpmTol
             minMzVal == DefaultTargetMz * Million - delta
             maxMzVal == DefaultTargetMz * Million + delta
         IN  Send([s EXCEPT !.loading = TRUE, !.error = NoError, !.spectrumData = Null],
                  XicReq(c.selectedFile, minMzVal, maxMzVal))

fetchChromatogram(s, c) ==
    IF c.selectedFile = NoFile THEN s
    ELSE LET delta == c.targetMz * c.ppmTol
             minMzVal == c.targetMz * Million - delta
             maxMzVal == c.targetMz * Million + delta
         IN  Send([s EXCEPT !.loading = TRUE, !.error = NoError, !.spectrumData = Null],
                  XicReq(c.selectedFile, minMzVal, maxMzVal))

(* the window the render shows *)
dMz(c) == c.targetMz * c.ppmTol
minMzVal(c) == c.targetMz * Million - dMz(c)
maxMzVal(c) == c.targetMz * Million + dMz(c)

(* A variant of the completion that bumps the plot revision on a failure  *)
(* too.                                                                    *)
fetchChromatogramDoneAlwaysBumps(s, r, ok) ==
    LET s1 == [Received(s, r) EXCEPT !.plotRevision = @ + 1]
        s2 == IF ok
              THEN [s1 EXCEPT !.chromData = XicOf(r.file)]
              ELSE [s1 EXCEPT !.error = "Failed to extract chromatogram"]
    IN  [s2 EXCEPT !.loading = FALSE]

fetchChromatogramDone(s, r, ok) ==
    LET s1 == Received(s, r)
        s2 == IF ok
              THEN [s1 EXCEPT !.chromData = XicOf(r.file), !.plotRevision = @ + 1]
              ELSE [s1 EXCEPT !.error = "Failed to extract chromatogram"]
    IN  [s2 EXCEPT !.loading = FALSE]

----------------------------------------------------------------------------
(* MS1 spectrum and the closest scan *)

Abs(x) == IF x < 0 THEN -x ELSE x
Min(a, b) == IF a < b THEN a ELSE b
Max(a, b) == IF a > b THEN a ELSE b

(* Math.min(...s) and Math.max(...s) of a non-empty array *)
RECURSIVE SeqMin(_)
SeqMin(s) == IF Len(s) = 1 THEN s[1] ELSE Min(s[1], SeqMin(Tail(s)))
RECURSIVE SeqMax(_)
SeqMax(s) == IF Len(s) = 1 THEN s[1] ELSE Max(s[1], SeqMax(Tail(s)))

(* scanList.reduce((prev, curr, idx) => ..., 0): idx runs over 0..length-1 *)
(* Variants of the scan search, for comparison with the one of the code:   *)
(* the first lets a later scan at equal distance win, the second compares  *)
(* signed differences.                                                     *)
RECURSIVE closestIdxLastWins(_, _, _, _)
closestIdxLastWins(scans, rt, idx, prev) ==
    IF idx >= Len(scans) THEN prev
    ELSE closestIdxLastWins(scans, rt, idx + 1,
            IF Abs(scans[idx + 1].rt - rt) <= Abs(scans[prev + 1].rt - rt)
            THEN idx ELSE prev)

RECURSIVE closestIdxSigned(_, _, _, _)
closestIdxSigned(scans, rt, idx, prev) ==
    IF idx >= Len(scans) THEN prev
    ELSE closestIdxSigned(scans, rt, idx + 1,
            IF (scans[idx + 1].rt - rt) < (scans[prev + 1].rt - rt)
            THEN idx ELSE prev)

RECURSIVE closestIdxFrom(_, _, _, _)
closestIdxFrom(scans, rt, idx, prev) ==
    IF idx >= Len(scans) THEN prev
    ELSE closestIdxFrom(scans, rt, idx + 1,
                        IF Abs(scans[idx + 1].rt - rt) < Abs(scans[prev + 1].rt - rt)
                        THEN idx ELSE prev)

closestIdx(scans, rt) == closestIdxFrom(scans, rt, 0, 0)

(* A variant of fetchSpectrum that raises the loading flag before it looks *)
(* at the selected file.                                                   *)
fetchSpectrumFlagsFirst(s, c, rt_sec) ==
    LET s1 == [s EXCEPT !.loading = TRUE]
    IN  IF c.selectedFile = NoFile THEN s1
        ELSE Send(s1, Ms1Req(c.selectedFile, rt_sec, c.scanList))

(* c is the render whose closure the caller holds: selectedFile and        *)
(* scanList are read from it, also after the await.                        *)
fetchSpectrum(s, c, rt_sec) ==
    IF c.selectedFile = NoFile THEN s
    ELSE Send([s EXCEPT !.loading = TRUE], Ms1Req(c.selectedFile, rt_sec, c.scanList))

(* A variant of the completion that keeps the MS2 spectrum. *)
fetchSpectrumDoneKeepsMs2(s, r, ok, data) ==
    LET s1 == Received(s, r)
        s2 == [s1 EXCEPT !.spectrumData = data, !.msXRange = Null]
        s3 == IF Len(r.scans) > 0
              THEN [s2 EXCEPT !.currentScanIdx = closestIdx(r.scans, data.rt)]
              ELSE s2
        s4 == IF ok THEN s3 ELSE [s1 EXCEPT !.error = "Failed to fetch spectrum"]
    IN  [s4 EXCEPT !.loading = FALSE]

(* A variant of the completion that drops a response while a later MS1    *)
(* request is still pending.                                               *)
fetchSpectrumDoneDropsStale(s, r, ok, data) ==
    LET s1 == Received(s, r)
        s2 == [s1 EXCEPT !.spectrumData = data, !.ms2Data = Null, !.msXRange = Null]
        s3 == IF Len(r.scans) > 0
              THEN [s2 EXCEPT !.currentScanIdx = closestIdx(r.scans, data.rt)]
              ELSE s2
        s4 == IF ~ok THEN [s1 EXCEPT !.error = "Failed to fetch spectrum"]
              ELSE IF \E q \in BagToSet(s1.inflight) : q.kind = "ms1" THEN s1
              ELSE s3
    IN  [s4 EXCEPT !.loading = FALSE]

(* A variant of the completion that keeps the MS1 zoom window. *)
fetchSpectrumDoneKeepsZoom(s, r, ok, data) ==
    LET s1 == Received(s, r)
        s2 == [s1 EXCEPT !.spectrumData = data, !.ms2Data = Null]
        s3 == IF Len(r.scans) > 0
              THEN [s2 EXCEPT !.currentScanIdx = closestIdx(r.scans, data.rt)]
              ELSE s2
        s4 == IF ok THEN s3 ELSE [s1 EXCEPT !.error = "Failed to fetch spectrum"]
    IN  [s4 EXCEPT !.loading = FALSE]

(* A variant of the completion that sends a failed request again. *)
fetchSpectrumDoneRetries(s, r, ok, data) ==
    LET s1 == Received(s, r)
        s2 == [s1 EXCEPT !.spectrumData = data, !.ms2Data = Null, !.msXRange = Null]
        s3 == IF Len(r.scans) > 0
              THEN [s2 EXCEPT !.currentScanIdx = closestIdx(r.scans, data.rt)]
              ELSE s2
    IN  IF ok THEN [s3 EXCEPT !.loading = FALSE] ELSE Send(s1, r)

fetchSpectrumDone(s, r, ok, data) ==
    LET s1 == Received(s, r)
        s2 == [s1 EXCEPT !.spectrumData = data, !.ms2Data = Null, !.msXRange = Null]
        s3 == IF Len(r.scans) > 0
              THEN [s2 EXCEPT !.currentScanIdx = closestIdx(r.scans, data.rt)]
              ELSE s2
        s4 == IF ok THEN s3 ELSE [s1 EXCEPT !.error = "Failed to fetch spectrum"]
    IN  [s4 EXCEPT !.loading = FALSE]

updateSpectrumByIndex(s, c, idx) ==
    IF idx < 0 \/ idx >= Len(c.scanList) THEN s
    ELSE fetchSpectrum([s EXCEPT !.currentScanIdx = idx], c, c.scanList[idx + 1].rt)

handleKeyDown(s, c, key) ==
    IF Len(c.scanList) = 0 THEN s
    ELSE IF key = "ArrowRight"
    THEN LET nextIdx == Min(Len(c.scanList) - 1, c.currentScanIdx + 1)
         IN  IF nextIdx # c.currentScanIdx THEN updateSpectrumByIndex(s, c, nextIdx) ELSE s
    ELSE IF key = "ArrowLeft"
    THEN LET prevIdx == Max(0, c.currentScanIdx - 1)
         IN  IF prevIdx # c.currentScanIdx THEN updateSpectrumByIndex(s, c, prevIdx) ELSE s
    ELSE s

(* A click event on the chromatogram: points is the sequence of the points *)
(* hit, each <<x>> or <<>> (no x); p2c is what the inverse axis transform  *)
(* gives at the pointer, <<x>>, or <<>> when the plot element is not found. *)
RECURSIVE firstX(_)
firstX(points) ==
    IF Len(points) = 0 THEN <<>>
    ELSE IF Head(points) # <<>> THEN Head(points)
    ELSE firstX(Tail(points))

handlePlotClick1(s, c, event) ==
    IF c.selectedFile = NoFile THEN s
    ELSE LET hit == firstX(event.points)
             rt_min == IF hit # <<>> THEN hit ELSE event.p2c
         IN  IF rt_min = <<>> \/ rt_min[1] < 0 THEN s
             ELSE fetchSpectrum(s, c, rt_min[1] * 60)

(* Revision 2 takes event.points[0].x as it is: a point with no x (null)  *)
(* gives null * 60.0 = 0.                                                  *)
handlePlotClick2(s, c, event) ==
    IF c.selectedFile = NoFile \/ ~event.hasPoints THEN s
    ELSE IF Len(event.points) > 0
    THEN fetchSpectrum(s, c, IF Head(event.points) # <<>>
                             THEN Head(event.points)[1] * 60 ELSE 0)
    ELSE s

handlePlotClick(s, c, event) ==
    IF rev = 1 THEN handlePlotClick1(s, c, event) ELSE handlePlotClick2(s, c, event)

----------------------------------------------------------------------------
(* MS2 spectrum *)

Ms2Tolerance == 10

fetchMs2Spectrum(s, c, precursor, rt_sec) ==
    IF c.selectedFile = NoFile THEN s
    ELSE Send([s EXCEPT !.ms2Loading = TRUE], Ms2Req(c.selectedFile, precursor, rt_sec))

(* Variants of the completion, for comparison with the one of the code:    *)
(* the first reports a failure in the error message, the second resets the *)
(* MS1 zoom window with the MS2 one.                                       *)
fetchMs2SpectrumDoneReports(s, r, outcome) ==
    LET s1 == Received(s, r)
        s2 == IF outcome = "ok"
              THEN [s1 EXCEPT !.ms2Data = Ms2Of(r.file, r.precursor, r.rt),
                              !.ms2XRange = Null]
              ELSE [s1 EXCEPT !.error = "Failed to fetch MS2 spectrum"]
    IN  [s2 EXCEPT !.ms2Loading = FALSE]

fetchMs2SpectrumDoneResetsMs1(s, r, outcome) ==
    LET s1 == Received(s, r)
        s2 == IF outcome = "ok"
              THEN [s1 EXCEPT !.ms2Data = Ms2Of(r.file, r.precursor, r.rt),
                              !.ms2XRange = Null, !.msXRange = Null]
              ELSE s1
    IN  [s2 EXCEPT !.ms2Loading = FALSE]

(* A variant whose return on a response that is not 2xx skips the finally. *)
fetchMs2SpectrumDoneReturnsEarly(s, r, outcome) ==
    LET s1 == Received(s, r)
    IN  IF outcome = "ok"
        THEN [s1 EXCEPT !.ms2Data = Ms2Of(r.file, r.precursor, r.rt),
                        !.ms2XRange = Null, !.ms2Loading = FALSE]
        ELSE IF outcome = "notok" THEN s1
        ELSE [s1 EXCEPT !.ms2Loading = FALSE]

(* outcome: "ok", "notok" (a response that is not 2xx) or "rejected" *)
fetchMs2SpectrumDone(s, r, outcome) ==
    LET s1 == Received(s, r)
        s2 == IF outcome = "ok"
              THEN [s1 EXCEPT !.ms2Data = Ms2Of(r.file, r.precursor, r.rt),
                              !.ms2XRange = Null]
              ELSE s1
    IN  [s2 EXCEPT !.ms2Loading = FALSE]

(* A variant of the search that answers with the clicked m/z. *)
RECURSIVE findMatchClicked(_, _)
findMatchClicked(has_ms2, mz) ==
    IF Len(has_ms2) = 0 THEN <<>>
    ELSE IF Abs(Head(has_ms2) - mz) < Ms2Tolerance THEN <<mz>>
    ELSE findMatchClicked(Tail(has_ms2), mz)

(* has_ms2.find(m => Math.abs(m - mz) < 0.1): <<m>> or <<>> *)
RECURSIVE findMatch(_, _)
findMatch(has_ms2, mz) ==
    IF Len(has_ms2) = 0 THEN <<>>
    ELSE IF Abs(Head(has_ms2) - mz) < Ms2Tolerance THEN <<Head(has_ms2)>>
    ELSE findMatch(Tail(has_ms2), mz)

RECURSIVE ms1ClickLoop(_, _, _)
ms1ClickLoop(s, c, points) ==
    IF Len(points) = 0 THEN s
    ELSE LET match == findMatch(c.spectrumData.has_ms2, Head(points))
         IN  IF match # <<>>
             THEN fetchMs2Spectrum(s, c, match[1], c.spectrumData.rt)
             ELSE ms1ClickLoop(s, c, Tail(points))

handleMs1Click(s, c, points) ==
    IF Len(points) = 0 \/ c.spectrumData = Null THEN s
    ELSE ms1ClickLoop(s, c, points)

----------------------------------------------------------------------------
(* Zoom windows: onRelayout of each pane.  e.range is <<window>> when the  *)
(* event carries xaxis.range[0], e.auto says it carries xaxis.autorange or *)
(* autosize.                                                               *)

(* A variant that keeps the window on autorange. *)
relayoutKeeps(old, e) ==
    IF e.range # <<>> THEN e.range[1]
    ELSE old

relayout(old, e) ==
    IF e.range # <<>> THEN e.range[1]
    ELSE IF e.auto THEN Null
    ELSE old

onRelayoutChrom(s, e) == [s EXCEPT !.chromXRange = relayout(@, e)]
onRelayoutMs1(s, e) == [s EXCEPT !.msXRange = relayout(@, e)]
onRelayoutMs2(s, e) == [s EXCEPT !.ms2XRange = relayout(@, e)]

activeChromData(c) == IF c.chromData # Null THEN c.chromData ELSE c.ticData

----------------------------------------------------------------------------
(* Stick spectrum: getStickData.  A sample is <<v>>, or <<>> for the null  *)
(* that breaks the line.                                                   *)

StickTolerance == 10

(* A variant of the match that includes the tolerance itself. *)
isHighlightedInclusive(highlightMzs, mz) ==
    \E k \in 1..Len(highlightMzs) : Abs(highlightMzs[k] - mz) <= StickTolerance

(* highlightMzs.some(m => Math.abs(m - mz) < 0.1) *)
isHighlighted(highlightMzs, mz) ==
    \E k \in 1..Len(highlightMzs) : Abs(highlightMzs[k] - mz) < StickTolerance

RECURSIVE getStickDataFrom(_, _, _, _, _)
getStickDataFrom(mzs, ints, highlightMzs, i, acc) ==
    IF i > Len(mzs) THEN acc
    ELSE LET mz == mzs[i]
             intensity == ints[i]
         IN  getStickDataFrom(mzs, ints, highlightMzs, i + 1,
                 IF isHighlighted(highlightMzs, mz)
                 THEN [acc EXCEPT !.hx = @ \o <<<<mz>>, <<mz>>, <<>>>>,
                                  !.hy = @ \o <<<<0>>, <<intensity>>, <<>>>>]
                 ELSE [acc EXCEPT !.x = @ \o <<<<mz>>, <<mz>>, <<>>>>,
                                  !.y = @ \o <<<<0>>, <<intensity>>, <<>>>>])

getStickData(mzs, ints, highlightMzs) ==
    getStickDataFrom(mzs, ints, highlightMzs, 1,
                     [x |-> <<>>, y |-> <<>>, hx |-> <<>>, hy |-> <<>>])

----------------------------------------------------------------------------
(* The y-axis maximum of a spectrum pane: calculateMaxVisibleY.  range is  *)
(* the pane's zoom window or Null.                                         *)

(* the for loop: the greatest ints[i] above 0 with mzs[i] in the window *)
RECURSIVE maxInRange(_, _, _, _, _)
maxInRange(mzs, ints, range, i, max) ==
    IF i > Len(mzs) THEN max
    ELSE maxInRange(mzs, ints, range, i + 1,
             IF mzs[i] >= range.lo /\ mzs[i] <= range.hi /\ ints[i] > max
             THEN ints[i] ELSE max)

calculateMaxVisibleY(mzs, ints, range) ==
    IF Len(ints) = 0 THEN 1
    ELSE IF range = Null
    THEN (IF SeqMax(ints) # 0 THEN SeqMax(ints) ELSE 1)    \* Math.max(...ints) || 1
    ELSE LET max == maxInRange(mzs, ints, range, 1, 0)
         IN  IF max > 0 THEN max ELSE 1

----------------------------------------------------------------------------
(* Peak integration.  A selection event is absent (present = FALSE) or     *)
(* carries points (<<xs>>, the x of each selected point) and a range       *)
(* (<<[lo, hi]>>), each possibly missing (<<>>); x in minutes.             *)

(* A variant that takes the window from the points before the range. *)
rangeXPointsFirst(event) ==
    IF event.points # <<>> /\ Len(event.points[1]) > 0
    THEN <<[lo |-> SeqMin(event.points[1]), hi |-> SeqMax(event.points[1])]>>
    ELSE event.range

(* event.range?.x || (points non-empty ? [min, max] : null) *)
rangeX(event) ==
    IF event.range # <<>> THEN event.range
    ELSE IF event.points # <<>> /\ Len(event.points[1]) > 0
    THEN <<[lo |-> SeqMin(event.points[1]), hi |-> SeqMax(event.points[1])]>>
    ELSE <<>>

(* activeChromData.x.forEach: the samples with minX <= rtSec / 60 <= maxX, *)
(* as (minutes, intensity)                                                 *)
RECURSIVE selectFrom(_, _, _, _, _)
selectFrom(chrom, i, minX, maxX, acc) ==
    IF i > Len(chrom.x) THEN acc
    ELSE LET rtSec == chrom.x[i]
             rtMin == rtSec \div 60
         IN  selectFrom(chrom, i + 1, minX, maxX,
                 IF rtSec >= 60 * minX /\ rtSec <= 60 * maxX
                 THEN [x |-> Append(acc.x, rtMin), y |-> Append(acc.y, chrom.y[i])]
                 ELSE acc)

(* Variants of the quadrature, for comparison with the one of the code:    *)
(* the first leaves the times in minutes, the second takes the left sample *)
(* of each pair instead of the mean of the two.                            *)
RECURSIVE trapezoidMinutes(_, _, _, _)
trapezoidMinutes(selectedX, selectedY, i, area) ==
    IF i >= Len(selectedX) THEN area
    ELSE LET x1 == selectedX[i]
             x2 == selectedX[i + 1]
             y1 == selectedY[i]
             y2 == selectedY[i + 1]
         IN  trapezoidMinutes(selectedX, selectedY, i + 1,
                              area + ((y1 + y2) * (x2 - x1)) \div 2)

RECURSIVE trapezoidLeft(_, _, _, _)
trapezoidLeft(selectedX, selectedY, i, area) ==
    IF i >= Len(selectedX) THEN area
    ELSE LET x1 == selectedX[i] * 60
             x2 == selectedX[i + 1] * 60
             y1 == selectedY[i]
         IN  trapezoidLeft(selectedX, selectedY, i + 1, area + y1 * (x2 - x1))

(* the loop over consecutive selected samples, times back in seconds; the  *)
(* samples lie on whole minutes, so (y1 + y2) * (x2 - x1) is even          *)
RECURSIVE trapezoid(_, _, _, _)
trapezoid(selectedX, selectedY, i, area) ==
    IF i >= Len(selectedX) THEN area
    ELSE LET x1 == selectedX[i] * 60
             x2 == selectedX[i + 1] * 60
             y1 == selectedY[i]
             y2 == selectedY[i + 1]
         IN  trapezoid(selectedX, selectedY, i + 1,
                       area + ((y1 + y2) * (x2 - x1)) \div 2)

(* A variant that clears the result when fewer than 2 samples qualify. *)
calculateIntegrationClears(s, c, event) ==
    IF ~event.present \/ (event.points = <<>> /\ event.range = <<>>) THEN s
    ELSE LET r == rangeX(event)
             active == activeChromData(c)
             selected == IF r # <<>> /\ active # Null
                         THEN selectFrom(active, 1, r[1].lo, r[1].hi,
                                         [x |-> <<>>, y |-> <<>>])
                         ELSE [x |-> <<>>, y |-> <<>>]
         IN  IF Len(selected.x) < 2
             THEN [s EXCEPT !.integratedArea = <<>>, !.integratedPoints = Null]
             ELSE [s EXCEPT !.integratedArea =
                                <<trapezoid(selected.x, selected.y, 1, 0)>>,
                            !.integratedPoints = selected]

calculateIntegration(s, c, event) ==
    IF ~event.present \/ (event.points = <<>> /\ event.range = <<>>) THEN s
    ELSE LET r == rangeX(event)
             active == activeChromData(c)
             selected == IF r # <<>> /\ active # Null
                         THEN selectFrom(active, 1, r[1].lo, r[1].hi,
                                         [x |-> <<>>, y |-> <<>>])
                         ELSE [x |-> <<>>, y |-> <<>>]
         IN  IF Len(selected.x) < 2 THEN s
             ELSE [s EXCEPT !.integratedArea =
                                <<trapezoid(selected.x, selected.y, 1, 0)>>,
                            !.integratedPoints = selected]

(* A variant of the mode button that keeps the result on leaving the mode. *)
toggleIntegrationKeeps(s) == [s EXCEPT !.integrationMode = ~@]

(* the Start Mode / Exit Mode button *)
toggleIntegration(s) ==
    LET s1 == [s EXCEPT !.integrationMode = ~@]
    IN  IF s.integrationMode
        THEN [s1 EXCEPT !.integratedArea = <<>>, !.integratedPoints = Null]
        ELSE s1

----------------------------------------------------------------------------
(* Inputs *)

Keys == {"ArrowRight", "ArrowLeft", "Control"}
Minutes == 0..MaxMin
PlotClicks ==
    {[hasPoints |-> TRUE, points |-> <<<<m>>>>, p2c |-> <<>>] : m \in Minutes}
    \cup {[hasPoints |-> TRUE, points |-> <<<<>>, <<m>>>>, p2c |-> <<>>] : m \in {1}}
    \cup {[hasPoints |-> TRUE, points |-> <<>>, p2c |-> <<m>>] : m \in {-1, 2}}
    \cup {[hasPoints |-> FALSE, points |-> <<>>, p2c |-> <<>>]}
Ms1Clicks == {<<>>, <<Precursor>>, <<Precursor + 9>>, <<Precursor + 10>>,
              <<2 * Precursor, Precursor - 5>>, <<Precursor - 5, Precursor + 15>>}
RelayoutEvents == {[range |-> <<ZoomedRange>>, auto |-> FALSE],
                   [range |-> <<ZoomedRange>>, auto |-> TRUE],
                   [range |-> <<>>, auto |-> TRUE],
                   [range |-> <<>>, auto |-> FALSE]}

(* Zoom windows of the MS1 pane, in m/z: around the peaks, and one that    *)
(* holds no peak.                                                          *)
MzWindows ==
    {w \in [lo : PeakMzs, hi : PeakMzs] : w.lo <= w.hi} \cup {[lo |-> 1, hi |-> 2]}

(* What the two number inputs of the extraction may hold. *)
TargetMzs == {-100, 0, 100, DefaultTargetMz}
PpmTols == {0, 10, DefaultPpmTol}

SelectionEvents ==
    {[present |-> FALSE, points |-> <<>>, range |-> <<>>],
     [present |-> TRUE, points |-> <<>>, range |-> <<>>],
     [present |-> TRUE, points |-> <<<<0, MaxMin>>>>, range |-> <<[lo |-> 1, hi |-> 1]>>],
     [present |-> TRUE, points |-> <<>>, range |-> <<[lo |-> 2, hi |-> 1]>>]}
    \cup {[present |-> TRUE, points |-> <<pts>>, range |-> <<>>] :
              pts \in {<<>>, <<1>>, <<2, 0>>, <<1, MaxMin, 2>>}}
    \cup {[present |-> TRUE, points |-> <<>>, range |-> <<w>>] :
              w \in {v \in [lo : Minutes, hi : Minutes] : v.lo <= v.hi}}

----------------------------------------------------------------------------
(* The state after construction.  Revision 2 requests the directory        *)
(* listing on mount.                                                       *)

Constructed(requests) ==
    /\ rev \in {1, 2}
    /\ selectedFile = NoFile
    /\ ticData = Null
    /\ chromData = Null
    /\ spectrumData = Null
    /\ ms2Data = Null
    /\ scanList = <<>>
    /\ currentScanIdx = -1
    /\ chromXRange = Null
    /\ msXRange = Null
    /\ ms2XRange = Null
    /\ loading = (rev = 2)
    /\ ms2Loading = FALSE
    /\ error = NoError
    /\ plotRevision = 0
    /\ integrationMode = FALSE
    /\ integratedArea = <<>>
    /\ integratedPoints = Null
    /\ targetMz = DefaultTargetMz
    /\ ppmTol = DefaultPpmTol
    /\ files = {}
    /\ keyFile = NoFile
    /\ inflight = IF rev = 2 THEN SetToBag({BrowseReq}) ELSE EmptyBag
    /\ budget = IF rev = 2 THEN requests - 1 ELSE requests
    /\ last = [op |-> "init", arg |-> <<>>, sent |-> {}]
    /\ snap = SnapOff

Init == Constructed(MaxRequests)

----------------------------------------------------------------------------
(* Actions: user events *)

Step(op, arg, s) == Commit(s) /\ Did(op, arg, s) /\ Snapped(op, arg, s)

Upload ==
    /\ rev = 1 /\ CanSend(1, 2)
    /\ \E f \in Files \cup {NoFile} : Step("upload", f, handleFileUpload(Cur, f))

LoadDemo ==
    /\ rev = 1 /\ CanSend(1, 2)
    /\ Step("demo", <<>>, loadDemoData(Cur))

ManualPathSubmit ==
    /\ rev = 1 /\ CanSend(2, 0)
    /\ \E p \in Files \cup {NoFile} :
          Step("manualSubmit", p, handleManualPathSubmit(Cur, p))

FileSelect ==
    /\ rev = 2 /\ CanSend(2, 0)
    /\ \E f \in files : Step("fileSelect", f, handleFileSelect(Cur, f))

BrowseDirectory ==
    /\ rev = 2 /\ CanSend(1, 0)
    /\ Step("browse", <<>>, fetchDirectory(Cur))

ExtractXic ==
    /\ CanSend(1, 0)
    /\ Step("xic", <<>>, fetchChromatogram(Cur, Cur))

(* onChange of the target m/z and tolerance inputs *)
SetTargetMz ==
    \E v \in TargetMzs : Step("setTargetMz", v, [Cur EXCEPT !.targetMz = v])

SetPpmTol ==
    \E v \in PpmTols : Step("setPpmTol", v, [Cur EXCEPT !.ppmTol = v])

BackToTic ==
    /\ chromData # Null
    /\ Step("backToTic", <<>>, [Cur EXCEPT !.chromData = Null])

PlotClick ==
    /\ activeChromData(Cur) # Null /\ CanSend(1, 0)
    /\ \E e \in PlotClicks : Step("plotClick", e, handlePlotClick(Cur, Cur, e))

TableClick ==
    /\ CanSend(1, 0)
    /\ \E idx \in 0..(Len(scanList) - 1) :
          Step("tableClick", idx, updateSpectrumByIndex(Cur, Cur, idx))

KeyDown ==
    /\ CanSend(1, 0)
    /\ \E key \in Keys :
          Step("key", key, handleKeyDown(Cur, [Cur EXCEPT !.selectedFile = keyFile], key))

Ms1Click ==
    /\ spectrumData # Null /\ CanSend(1, 0)
    /\ \E points \in Ms1Clicks : Step("ms1Click", points, handleMs1Click(Cur, Cur, points))

ClearMs2 ==
    /\ ms2Data # Null
    /\ Step("clearMs2", <<>>, [Cur EXCEPT !.ms2Data = Null])

RelayoutChrom ==
    /\ activeChromData(Cur) # Null
    /\ \E e \in RelayoutEvents : Step("relayoutChrom", e, onRelayoutChrom(Cur, e))

RelayoutMs1 ==
    /\ spectrumData # Null
    /\ \E e \in RelayoutEvents : Step("relayoutMs1", e, onRelayoutMs1(Cur, e))

RelayoutMs2 ==
    /\ ms2Data # Null
    /\ \E e \in RelayoutEvents : Step("relayoutMs2", e, onRelayoutMs2(Cur, e))

(* The MS1 pane is zoomed to a window of m/z, or back to the whole axis. *)
ZoomMs1 ==
    /\ spectrumData # Null
    /\ \E e \in {[range |-> <<w>>, auto |-> FALSE] : w \in MzWindows}
                  \cup {[range |-> <<>>, auto |-> TRUE]} :
          Step("relayoutMs1", e, onRelayoutMs1(Cur, e))

ToggleIntegration ==
    /\ integrationMode \in BOOLEAN
    /\ Step("toggleIntegration", <<>>, toggleIntegration(Cur))

(* onSelected={integrationMode ? calculateIntegration : undefined} of the  *)
(* chromatogram plot, which is mounted while there is an active            *)
(* chromatogram                                                            *)
Selected ==
    /\ integrationMode /\ activeChromData(Cur) # Null
    /\ \E e \in SelectionEvents : Step("selected", e, calculateIntegration(Cur, Cur, e))

----------------------------------------------------------------------------
(* Actions: responses.  The data service is outside the repository: it     *)
(* answers each request with success or failure, in any order.             *)

Done(r, ok) == [r |-> r, ok |-> ok]
Arrived(r, ok, data) == [r |-> r, ok |-> ok, data |-> data]

UploadDone ==
    \E r \in Pending : \E ok \in BOOLEAN :
        /\ r.kind = "upload"
        /\ Step("uploadDone", Done(r, ok), handleFileUploadDone(Cur, r, ok))

DemoDone ==
    \E r \in Pending : \E ok \in BOOLEAN :
        /\ r.kind = "demo"
        /\ Step("demoDone", Done(r, ok), loadDemoDataDone(Cur, r, ok))

BrowseDone ==
    \E r \in Pending : \E ok \in BOOLEAN :
        /\ r.kind = "browse"
        /\ Step("browseDone", Done(r, ok), fetchDirectoryDone(Cur, r, ok))

TicDone ==
    \E r \in Pending : \E ok \in BOOLEAN :
        /\ r.kind = "tic"
        /\ Step("ticDone", Done(r, ok), fetchTicDone(Cur, r, ok))

ScansDone ==
    \E r \in Pending : \E ok \in BOOLEAN :
        /\ r.kind = "scans"
        /\ Step("scansDone", Done(r, ok), fetchScanListDone(Cur, r, ok, ScansOf(r.file)))

XicDone ==
    \E r \in Pending : \E ok \in BOOLEAN :
        /\ r.kind = "xic"
        /\ Step("xicDone", Done(r, ok), fetchChromatogramDone(Cur, r, ok))

SpectrumDone ==
    \E r \in Pending : \E ok \in BOOLEAN :
        /\ r.kind = "ms1"
        /\ \E rt \in (IF ok THEN RtSecs ELSE {0}) :
              Step("ms1Done", Arrived(r, ok, SpectrumOf(r.file, rt)),
                   fetchSpectrumDone(Cur, r, ok, SpectrumOf(r.file, rt)))

(* An MS1 request is answered with any response the service may send. *)
SpectrumArrives ==
    \E r \in Pending :
        /\ r.kind = "ms1"
        /\ \E data \in SpectrumResponses(r.file, r.rt) :
              Step("ms1Done", Arrived(r, TRUE, data), fetchSpectrumDone(Cur, r, TRUE, data))

Ms2Done ==
    \E r \in Pending : \E outcome \in {"ok", "notok", "rejected"} :
        /\ r.kind = "ms2"
        /\ Step("ms2Done", Done(r, outcome = "ok"), fetchMs2SpectrumDone(Cur, r, outcome))

----------------------------------------------------------------------------
(* Spec: the whole program from construction, on the data service's two    *)
(* files.  The zoom windows are moved by the view specifications below.    *)

Next ==
    \/ Upload \/ LoadDemo \/ ManualPathSubmit \/ FileSelect \/ BrowseDirectory
    \/ ExtractXic \/ BackToTic \/ PlotClick \/ TableClick \/ KeyDown
    \/ Ms1Click \/ ClearMs2
    \/ UploadDone \/ DemoDone \/ BrowseDone \/ TicDone \/ ScansDone \/ XicDone
    \/ SpectrumDone \/ Ms2Done

Spec == Init /\ [][Next]_vars

(* SpecRequests: the whole program from construction, in a shorter session. *)
InitRequests == Constructed(MaxReselectRequests)
SpecRequests == InitRequests /\ [][Next]_vars

----------------------------------------------------------------------------
(* The state once file A is loaded: its TIC and its scan list have come.   *)
(* The scan list is any list the data service may hold for a file.         *)

LoadedWith(tic, scans, requests) ==
    /\ rev \in {1, 2}
    /\ selectedFile = "A"
    /\ ticData = tic
    /\ chromData = Null
    /\ spectrumData = Null
    /\ ms2Data = Null
    /\ scanList = scans
    /\ currentScanIdx = -1
    /\ chromXRange = Null
    /\ msXRange = Null
    /\ ms2XRange = Null
    /\ loading = FALSE
    /\ ms2Loading = FALSE
    /\ error = NoError
    /\ plotRevision = 1
    /\ integrationMode = FALSE
    /\ integratedArea = <<>>
    /\ integratedPoints = Null
    /\ targetMz = DefaultTargetMz
    /\ ppmTol = DefaultPpmTol
    /\ files = IF rev = 2 THEN Files ELSE {}
    /\ keyFile = "A"
    /\ inflight = EmptyBag
    /\ budget = requests
    /\ last = [op |-> "scansDone", arg |-> Done(ScansReq("A", FALSE), TRUE), sent |-> {}]

Loaded(scans, requests) == LoadedWith(TicOf("A"), scans, requests)

(* SpecScans: moving through the scans of a loaded file; snap is kept. *)
InitScans == (\E scans \in ScanLists : Loaded(scans, MaxViewRequests)) /\ snap = SnapIdle
NextScans == PlotClick \/ TableClick \/ KeyDown \/ SpectrumDone
SpecScans == InitScans /\ [][NextScans]_vars

(* SpecPanes: the three panes of a loaded file and their zoom windows. *)
InitPanes == Loaded(ScansOf("A"), MaxPaneRequests) /\ snap = SnapOff
NextPanes ==
    \/ PlotClick \/ TableClick \/ SpectrumDone \/ Ms1Click \/ Ms2Done \/ ClearMs2
    \/ RelayoutChrom \/ RelayoutMs1 \/ RelayoutMs2
SpecPanes == InitPanes /\ [][NextPanes]_vars

(* SpecReselect: a second file is selected while file A is on display. *)
InitReselect == Loaded(ScansOf("A"), MaxReselectRequests) /\ snap = SnapOff
NextReselect ==
    \/ ManualPathSubmit \/ FileSelect \/ TicDone \/ ScansDone
    \/ PlotClick \/ TableClick \/ SpectrumDone
SpecReselect == InitReselect /\ [][NextReselect]_vars

(* SpecFailure: requests of a loaded file that fail; snap is kept. *)
InitFailure == Loaded(ScansOf("A"), MaxViewRequests) /\ snap = SnapIdle
NextFailure ==
    \/ ExtractXic \/ XicDone \/ PlotClick \/ TableClick \/ KeyDown \/ SpectrumDone
    \/ Ms1Click \/ Ms2Done
SpecFailure == InitFailure /\ [][NextFailure]_vars

(* SpecAreas: peak integration over any chromatogram of a loaded file.     *)
(* calculateIntegration and the mode button are the same text in the two   *)
(* revisions; revision 1 runs.                                             *)
InitAreas ==
    /\ \E tic \in Chromatograms : LoadedWith(tic, ScansOf("A"), 0)
    /\ rev = 1
    /\ snap = SnapOff
NextAreas == ToggleIntegration \/ Selected
SpecAreas == InitAreas /\ [][NextAreas]_vars

(* SpecIntegration: peak integration while the active chromatogram changes. *)
InitIntegration == Loaded(ScansOf("A"), MaxViewRequests) /\ snap = SnapOff
NextIntegration ==
    \/ ToggleIntegration \/ Selected \/ ExtractXic \/ XicDone \/ BackToTic
    \/ ManualPathSubmit \/ FileSelect \/ TicDone \/ ScansDone
SpecIntegration == InitIntegration /\ [][NextIntegration]_vars

(* SpecSpectra: the MS1 pane over any spectrum the service may send. *)
InitSpectra == Loaded(ScansOf("A"), MaxSpectra) /\ snap = SnapOff
NextSpectra == TableClick \/ SpectrumArrives
SpecSpectra == InitSpectra /\ [][NextSpectra]_vars

(* LiveSession: a session over a loaded file in which every request is    *)
(* answered: the browser settles every fetch promise it holds, with a      *)
(* response or a rejection, and runs the continuation of the await.  The   *)
(* user uploads a file, extracts a chromatogram, opens scans and MS2       *)
(* spectra, and stops when the session has sent what it may.               *)
InitLive == Loaded(ScansOf("A"), MaxPaneRequests) /\ snap = SnapOff
Responses ==
    \/ UploadDone \/ TicDone \/ ScansDone \/ XicDone \/ SpectrumDone \/ Ms2Done
NextLive == Upload \/ ExtractXic \/ TableClick \/ Ms1Click \/ Responses
LiveSession == InitLive /\ [][NextLive]_vars /\ WF_vars(Responses)

(* SpecClicks: clicks on a displayed MS1 spectrum.  The spectrum is that   *)
(* of scan 0 of file A with any flagged precursors; it is displayed over   *)
(* the loaded file, or (revision 1) with no file selected: an upload made  *)
(* while the spectrum was being fetched has failed and the spectrum has    *)
(* arrived since.                                                          *)
FlaggedLists == {<<>>, <<Precursor>>, <<Precursor + 9, Precursor>>}
DisplayedSpectra == {[SpectrumOf("A", 60) EXCEPT !.has_ms2 = h] : h \in FlaggedLists}

Displayed(file, spectrum, requests) ==
    /\ rev \in (IF file = NoFile THEN {1} ELSE {1, 2})
    /\ selectedFile = file
    /\ ticData = IF file = NoFile THEN Null ELSE TicOf(file)
    /\ chromData = Null
    /\ spectrumData = spectrum
    /\ ms2Data = Null
    /\ scanList = IF file = NoFile THEN <<>> ELSE ScansOf(file)
    /\ currentScanIdx = 0
    /\ chromXRange = Null
    /\ msXRange = Null
    /\ ms2XRange = Null
    /\ loading = FALSE
    /\ ms2Loading = FALSE
    /\ error = IF file = NoFile THEN "Upload Error: Upload failed." ELSE NoError
    /\ plotRevision = 1
    /\ integrationMode = FALSE
    /\ integratedArea = <<>>
    /\ integratedPoints = Null
    /\ targetMz = DefaultTargetMz
    /\ ppmTol = DefaultPpmTol
    /\ files = IF rev = 2 THEN Files ELSE {}
    /\ keyFile = file
    /\ inflight = EmptyBag
    /\ budget = requests
    /\ last = [op |-> "ms1Done",
               arg |-> Arrived(Ms1Req("A", 60, ScansOf("A")), TRUE, spectrum), sent |-> {}]

InitClicks ==
    /\ \E file \in {"A", NoFile} : \E spectrum \in DisplayedSpectra :
          Displayed(file, spectrum, MaxViewRequests)
    /\ snap = SnapOff
NextClicks == Ms1Click \/ Ms2Done \/ ClearMs2
SpecClicks == InitClicks /\ [][NextClicks]_vars

(* SpecAxis: the y axis of the MS1 pane, over any aligned spectrum of up   *)
(* to MaxPeaks peaks.  Intensities are numbers of the response: negative   *)
(* and zero values included.                                               *)
AxisInts == {-5, 0, 5, 8}
AxisSpectra ==
    UNION {{[SpectrumOf("A", 60) EXCEPT !.mzs = mzs, !.ints = ints] :
                mzs \in {s \in [1..n -> PeakMzs] : NonDecreasing(s)},
                ints \in [1..n -> AxisInts]} : n \in 0..MaxPeaks}

InitAxis ==
    /\ \E spectrum \in AxisSpectra : Displayed("A", spectrum, 0)
    /\ snap = SnapOff
NextAxis == ZoomMs1
SpecAxis == InitAxis /\ [][NextAxis]_vars

(* SpecWindow: the mass window of the extraction while its inputs change. *)
InitWindow == Loaded(ScansOf("A"), MaxViewRequests) /\ snap = SnapOff
NextWindow == SetTargetMz \/ SetPpmTol \/ ExtractXic \/ XicDone
SpecWindow == InitWindow /\ [][NextWindow]_vars

----------------------------------------------------------------------------
(* Properties.                                                             *)

Succeeded(op) == last.op = op /\ last.arg.ok

(* The step that selects a file issues that file's TIC request. *)
IssuedTic == \E r \in last.sent : r.kind = "tic"

(* C1: when a file selection issues its first fetch (the TIC request), the  *)
(* extracted chromatogram, the MS1 spectrum, the MS2 spectrum, the scan     *)
(* list, the current scan index and the three zoom windows have all been    *)
(* cleared.                                                                 *)
C1_SelectionClears ==
    IssuedTic =>
        /\ chromData = Null
        /\ spectrumData = Null
        /\ ms2Data = Null
        /\ scanList = <<>>
        /\ currentScanIdx = -1
        /\ chromXRange = Null
        /\ msXRange = Null
        /\ ms2XRange = Null

(* C2: no step issues a file's scan-list request together with that file's *)
(* TIC request: the scan-list request goes out only once the TIC fetch has  *)
(* completed.                                                               *)
C2_ScanListAfterTic ==
    \A r1 \in Pending : \A r2 \in last.sent :
        ~(r1.kind = "tic" /\ r2.kind = "scans" /\ r1.file = r2.file)

(* C3: the current scan index is -1 or an index of the scan list.          *)
C3_IdxInRange ==
    /\ currentScanIdx >= -1
    /\ currentScanIdx <= Len(scanList) - 1

Dist(scans, i, t) == Abs(scans[i + 1].rt - t)

IsClosest(scans, i, t) ==
    /\ i \in 0..(Len(scans) - 1)
    /\ \A j \in 0..(Len(scans) - 1) : Dist(scans, i, t) <= Dist(scans, j, t)

NoSpectrumPending == \A r \in Pending : r.kind # "ms1"

(* C4: once no MS1 fetch is pending, a current scan index >= 0 comes with a *)
(* displayed MS1 spectrum, and it is the index of the scan closest to that  *)
(* spectrum's retention time.                                               *)
C4_IdxMatchesSpectrum ==
    (NoSpectrumPending /\ currentScanIdx >= 0) =>
        /\ spectrumData # Null
        /\ IsClosest(scanList, currentScanIdx, spectrumData.rt)

(* The scan list an MS1 response is resolved against: the one its request  *)
(* was issued with.                                                        *)
ResolvedScans == last.arg.r.scans
Rows(scans) == 0..(Len(scans) - 1)

(* C5: a successful MS1 fetch resolved against a non-empty scan list sets   *)
(* the current scan index to the smallest index whose retention time is at  *)
(* minimal distance from the returned spectrum's.                           *)
C5_ClosestSmallestIndex ==
    (Succeeded("ms1Done") /\ Len(ResolvedScans) > 0) =>
        /\ currentScanIdx \in Rows(ResolvedScans)
        /\ \A j \in Rows(ResolvedScans) :
              /\ Dist(ResolvedScans, j, spectrumData.rt)
                    >= Dist(ResolvedScans, currentScanIdx, spectrumData.rt)
              /\ j < currentScanIdx =>
                    Dist(ResolvedScans, j, spectrumData.rt)
                        > Dist(ResolvedScans, currentScanIdx, spectrumData.rt)

(* C5's case: two scans at the same minimal distance, the earlier chosen. *)
C5_TieSeen ==
    /\ Succeeded("ms1Done")
    /\ currentScanIdx \in Rows(ResolvedScans)
    /\ \E j \in Rows(ResolvedScans) :
          /\ j > currentScanIdx
          /\ ResolvedScans[j + 1].rt # ResolvedScans[currentScanIdx + 1].rt
          /\ Dist(ResolvedScans, j, spectrumData.rt)
                = Dist(ResolvedScans, currentScanIdx, spectrumData.rt)

(* C6: after a successful MS1 fetch with the scan list empty, the current   *)
(* scan index is -1.                                                        *)
C6_EmptyListNoMatch ==
    (Succeeded("ms1Done") /\ Len(scanList) = 0) => currentScanIdx = -1

(* Row i of the table was clicked, and its fetch has succeeded with a       *)
(* spectrum of that row's retention time.                                   *)
RoundTrip(i) ==
    /\ snap.tag = "settled"
    /\ snap.op = "tableClick"
    /\ snap.arg = i
    /\ Succeeded("ms1Done")
    /\ spectrumData.rt = scanList[i + 1].rt

(* C7 as stated: for every ascending scan list and every row i, clicking    *)
(* row i and having its fetch return row i's retention time ends with the   *)
(* current scan index equal to i.                                           *)
C7_RoundTripExact ==
    \A i \in Rows(scanList) : RoundTrip(i) => currentScanIdx = i

(* C7 amended: it ends on the first row whose retention time is row i's,    *)
(* which is row i when no earlier row has the same retention time.          *)
C7_RoundTripFirstEqual ==
    \A i \in Rows(scanList) :
        RoundTrip(i) =>
            /\ currentScanIdx \in 0..i
            /\ scanList[currentScanIdx + 1].rt = scanList[i + 1].rt
            /\ \A j \in 0..(currentScanIdx - 1) : scanList[j + 1].rt # scanList[i + 1].rt

(* C7's case: the round trip of a row other than the first. *)
C7_RoundTripSeen ==
    \E i \in Rows(scanList) : i >= 1 /\ RoundTrip(i) /\ currentScanIdx = i

(* C8 as stated: a successful MS1 fetch leaves the MS2 spectrum null and    *)
(* the MS2 zoom window null.                                                *)
C8_Ms1ClearsMs2Zoom ==
    Succeeded("ms1Done") => (ms2Data = Null /\ ms2XRange = Null)

(* C8 amended: a successful MS1 fetch leaves the MS2 spectrum null and the  *)
(* MS1 zoom window null, and leaves the MS2 zoom window as it was.          *)
C8_Ms1ClearsMs2AndMs1Zoom ==
    [][(last'.op = "ms1Done" /\ last'.arg.ok) =>
          (ms2Data' = Null /\ msXRange' = Null /\ ms2XRange' = ms2XRange)]_vars

(* C8's case: an MS1 fetch has succeeded while the MS2 pane was zoomed. *)
C8_Ms2ZoomSurvives ==
    Succeeded("ms1Done") /\ ms2XRange # Null /\ ms2Data = Null

FetchOps == {"xicDone", "ms1Done", "ms2Done"}

(* C9: when the fetch of a user action fails, every field other than the    *)
(* error message and the loading flags has the value it had immediately     *)
(* before that user action.                                                 *)
C9_FailureLeavesState ==
    (snap.tag = "settled" /\ last.op \in FetchOps /\ ~last.arg.ok) =>
        Core(Cur) = snap.before

FailureMessage(op) ==
    CASE op = "uploadDone" -> "Upload Error: Upload failed."
      [] op = "demoDone"   -> "Demo file not available."
      [] op = "ticDone"    -> "Failed to get TIC"
      [] op = "scansDone"  -> "Failed to get scan list"
      [] op = "xicDone"    -> "Failed to extract chromatogram"
      [] op = "ms1Done"    -> "Failed to fetch spectrum"

(* C10: every failed fetch other than the MS2 fetch (upload, demo, TIC,     *)
(* scan list, XIC, MS1) leaves its own message as the error message.        *)
C10_FailureSetsError ==
    (last.op \in {"uploadDone", "demoDone", "ticDone", "scansDone", "xicDone", "ms1Done"}
        /\ ~last.arg.ok)
    => error = FailureMessage(last.op)

(* C11: a failed MS2 fetch (response not 2xx, or request rejected) leaves   *)
(* the MS2 spectrum, the MS2 zoom window, the MS1 spectrum and the error    *)
(* message as they were, both when it is issued and when it fails, and      *)
(* ms2Loading is false afterwards.                                          *)
C11_Ms2FailureKeepsView ==
    [][((last'.op = "ms2Done" /\ ~last'.arg.ok)
            \/ (last'.op = "ms1Click" /\ last'.sent # {}))
        => /\ ms2Data' = ms2Data
           /\ ms2XRange' = ms2XRange
           /\ spectrumData' = spectrumData
           /\ error' = error
           /\ (last'.op = "ms2Done" => ms2Loading' = FALSE)]_vars

(* C11's case: an MS2 fetch has failed with an MS2 spectrum on display. *)
C11_Ms2FailureSeen ==
    last.op = "ms2Done" /\ ~last.arg.ok /\ ms2Data # Null /\ ~ms2Loading

(* C12: a successful MS2 fetch makes the MS2 spectrum the response of that  *)
(* fetch and the MS2 zoom window null, and leaves the MS1 spectrum, the MS1 *)
(* zoom window, the chromatogram zoom window and the current scan index     *)
(* unchanged.                                                               *)
C12_Ms2SuccessReplacesView ==
    [][(last'.op = "ms2Done" /\ last'.arg.ok)
        => /\ ms2Data' = Ms2Of(last'.arg.r.file, last'.arg.r.precursor, last'.arg.r.rt)
           /\ ms2XRange' = Null
           /\ spectrumData' = spectrumData
           /\ msXRange' = msXRange
           /\ chromXRange' = chromXRange
           /\ currentScanIdx' = currentScanIdx]_vars

(* C12's case: an MS2 fetch has succeeded with the MS1 and the chromatogram *)
(* panes zoomed.                                                            *)
C12_Ms2SuccessSeen ==
    /\ Succeeded("ms2Done")
    /\ ms2Data # Null
    /\ msXRange # Null
    /\ chromXRange # Null

(* C13: when two MS1 fetches overlap, the response that resolves does not   *)
(* cancel the other request, and every successful response is applied: the  *)
(* displayed MS1 spectrum is that response and the current scan index is    *)
(* the one resolved for it, so the response that resolves last wins.        *)
C13_LastResponseWins ==
    [][(last'.op = "ms1Done")
        => /\ inflight' = inflight (-) SetToBag({last'.arg.r})
           /\ last'.arg.ok =>
                /\ spectrumData' = last'.arg.data
                /\ Len(last'.arg.r.scans) > 0 =>
                      currentScanIdx' = closestIdx(last'.arg.r.scans, last'.arg.data.rt)]_vars

(* C13's case: of two overlapping MS1 fetches of different retention times  *)
(* one has succeeded and the other is still pending.                        *)
C13_OverlapSeen ==
    /\ Succeeded("ms1Done")
    /\ \E q \in Pending : q.kind = "ms1" /\ q.rt # last.arg.r.rt

(* What a relayout notification e asks of the pane that receives it. *)
Relaid(e, old, new) ==
    /\ e.range # <<>> => new = e.range[1]
    /\ (e.range = <<>> /\ e.auto) => new = Null
    /\ (e.range = <<>> /\ ~e.auto) => new = old

(* C18: a relayout notification with explicit x-axis bounds sets the zoom   *)
(* window of its pane to those bounds, one with autorange or autosize and   *)
(* no bounds sets it to null, and the zoom windows of the other two panes   *)
(* are unchanged.                                                           *)
C18_RelayoutPerPane ==
    [][/\ last'.op = "relayoutChrom" =>
            /\ Relaid(last'.arg, chromXRange, chromXRange')
            /\ msXRange' = msXRange /\ ms2XRange' = ms2XRange
       /\ last'.op = "relayoutMs1" =>
            /\ Relaid(last'.arg, msXRange, msXRange')
            /\ chromXRange' = chromXRange /\ ms2XRange' = ms2XRange
       /\ last'.op = "relayoutMs2" =>
            /\ Relaid(last'.arg, ms2XRange, ms2XRange')
            /\ chromXRange' = chromXRange /\ msXRange' = msXRange]_vars

(* C18's case: the MS2 pane has been reset by autorange while the other two *)
(* panes stay zoomed.                                                       *)
C18_RelayoutSeen ==
    /\ last.op = "relayoutMs2"
    /\ last.arg.range = <<>> /\ last.arg.auto
    /\ ms2XRange = Null
    /\ chromXRange = ZoomedRange
    /\ msXRange = ZoomedRange

ActiveChrom == IF chromData # Null THEN chromData ELSE ticData

(* The time window a selection event asks for: its range, else the least   *)
(* and the greatest x of its points; <<>> when it has neither.             *)
Window(e) ==
    IF ~e.present THEN <<>>
    ELSE IF e.range # <<>> THEN e.range
    ELSE IF e.points # <<>> /\ Len(e.points[1]) > 0
    THEN LET xs == {e.points[1][k] : k \in 1..Len(e.points[1])}
         IN  <<[lo |-> CHOOSE m \in xs : \A v \in xs : m <= v,
                hi |-> CHOOSE m \in xs : \A v \in xs : m >= v]>>
    ELSE <<>>

(* The qualifying samples of chromatogram chrom for event e: those whose    *)
(* time in minutes lies in the window, bounds included.                     *)
Qualifying(e, chrom) ==
    IF Window(e) = <<>> \/ chrom = Null THEN {}
    ELSE {i \in 1..Len(chrom.x) :
            /\ chrom.x[i] >= 60 * Window(e)[1].lo
            /\ chrom.x[i] <= 60 * Window(e)[1].hi}

(* The elements of a set of indices in increasing order. *)
RECURSIVE Ascending(_)
Ascending(S) ==
    IF S = {} THEN <<>>
    ELSE LET m == CHOOSE i \in S : \A j \in S : i <= j
         IN  <<m>> \o Ascending(S \ {m})

(* Sum over the consecutive pairs of q of (y[i] + y[i+1]) / 2 * (t[i+1] - t[i]), *)
(* t in seconds.                                                            *)
RECURSIVE TrapezoidSum(_, _, _)
TrapezoidSum(chrom, q, k) ==
    IF k >= Len(q) THEN 0
    ELSE ((chrom.y[q[k]] + chrom.y[q[k + 1]]) * (chrom.x[q[k + 1]] - chrom.x[q[k]])) \div 2
         + TrapezoidSum(chrom, q, k + 1)

(* C14: an integration call with fewer than 2 qualifying samples (no event, *)
(* neither points nor range, an empty selection) leaves the stored area and *)
(* the stored points as they were.                                          *)
C14_FewSamplesNoOp ==
    [][(last'.op = "selected"
            /\ Cardinality(Qualifying(last'.arg, ActiveChrom)) < 2)
        => (integratedArea' = integratedArea /\ integratedPoints' = integratedPoints)]_vars

(* C14's case: such a call has been made over a stored result. *)
C14_FewSamplesSeen ==
    /\ last.op = "selected"
    /\ last.arg.present
    /\ Cardinality(Qualifying(last.arg, ActiveChrom)) = 1
    /\ integratedArea # <<>>
    /\ integratedPoints # Null

(* C15: after an integration call with at least 2 qualifying samples the    *)
(* stored area is the trapezoidal sum over the consecutive qualifying       *)
(* samples, times in seconds, and the stored points are the qualifying      *)
(* samples as (minutes, intensity), in order.                               *)
C15_TrapezoidArea ==
    (last.op = "selected" /\ Cardinality(Qualifying(last.arg, ActiveChrom)) >= 2) =>
        LET q == Ascending(Qualifying(last.arg, ActiveChrom))
        IN  /\ integratedArea = <<TrapezoidSum(ActiveChrom, q, 1)>>
            /\ integratedPoints # Null
            /\ Len(integratedPoints.x) = Len(q)
            /\ Len(integratedPoints.y) = Len(q)
            /\ \A k \in 1..Len(q) :
                  /\ integratedPoints.x[k] * 60 = ActiveChrom.x[q[k]]
                  /\ integratedPoints.y[k] = ActiveChrom.y[q[k]]

(* C15's case: the ramp (0 s, 0), (60 s, 10), (120 s, 0) fully selected. *)
C15_RampSeen ==
    /\ last.op = "selected"
    /\ ActiveChrom.x = <<0, 60, 120>> /\ ActiveChrom.y = <<0, 10, 0>>
    /\ integratedArea = <<600>>
    /\ integratedPoints = [x |-> <<0, 1, 2>>, y |-> <<0, 10, 0>>]

(* C16: a stored integration result (area or points) comes with the         *)
(* integration mode on; leaving the mode clears both.                       *)
C16_ResultOnlyInMode ==
    (integratedArea # <<>> \/ integratedPoints # Null) => integrationMode

(* C16's case: a result is stored, over an extracted chromatogram. *)
C16_ResultSeen ==
    integrationMode /\ integratedArea # <<>> /\ integratedPoints # Null /\ chromData # Null

(* C17: a stored integration result was computed from the chromatogram that *)
(* is active now: some selection of the active chromatogram gives it.       *)
C17_ResultOfActiveChrom ==
    integratedPoints # Null =>
        \E e \in SelectionEvents :
            /\ Cardinality(Qualifying(e, ActiveChrom)) >= 2
            /\ LET q == Ascending(Qualifying(e, ActiveChrom))
               IN  /\ integratedArea = <<TrapezoidSum(ActiveChrom, q, 1)>>
                   /\ integratedPoints =
                        [x |-> [k \in 1..Len(q) |-> ActiveChrom.x[q[k]] \div 60],
                         y |-> [k \in 1..Len(q) |-> ActiveChrom.y[q[k]]]]

(* The sticks the MS1 pane draws. *)
Ms1Sticks == getStickData(spectrumData.mzs, spectrumData.ints, spectrumData.has_ms2)

(* The three samples of a peak. *)
TripletX(mz) == <<<<mz>>, <<mz>>, <<>>>>
TripletY(intensity) == <<<<0>>, <<intensity>>, <<>>>>

(* Peak i has a highlight value at less than 0.1 Da. *)
NearHighlight(i) ==
    \E h \in {spectrumData.has_ms2[k] : k \in 1..Len(spectrumData.has_ms2)} :
        Abs(h - spectrumData.mzs[i]) < 10

(* The triplets of the peaks of q, in the order of q. *)
RECURSIVE TripletsX(_)
TripletsX(q) ==
    IF q = <<>> THEN <<>> ELSE TripletX(spectrumData.mzs[Head(q)]) \o TripletsX(Tail(q))
RECURSIVE TripletsY(_)
TripletsY(q) ==
    IF q = <<>> THEN <<>> ELSE TripletY(spectrumData.ints[Head(q)]) \o TripletsY(Tail(q))

(* C19: for index-aligned (mzs, ints), the stick builder gives each peak,   *)
(* in input order, the samples (mz, 0), (mz, intensity), (null, null) in    *)
(* one channel: the highlighted one if a highlight value lies at less than  *)
(* 0.1 Da of mz, else the normal one; so the channels are aligned, hold 3   *)
(* samples per peak, and every third sample is the break.                   *)
C19_StickTriplets ==
    (spectrumData # Null /\ Len(spectrumData.mzs) = Len(spectrumData.ints)) =>
        LET peaks == 1..Len(spectrumData.mzs)
            hi == Ascending({i \in peaks : NearHighlight(i)})
            lo == Ascending({i \in peaks : ~NearHighlight(i)})
        IN  /\ Ms1Sticks.x = TripletsX(lo) /\ Ms1Sticks.y = TripletsY(lo)
            /\ Ms1Sticks.hx = TripletsX(hi) /\ Ms1Sticks.hy = TripletsY(hi)
            /\ Len(Ms1Sticks.x) = Len(Ms1Sticks.y)
            /\ Len(Ms1Sticks.hx) = Len(Ms1Sticks.hy)
            /\ Len(Ms1Sticks.x) + Len(Ms1Sticks.hx) = 3 * Len(spectrumData.mzs)
            /\ \A k \in 1..Len(Ms1Sticks.x) : (k % 3 = 0) <=> (Ms1Sticks.x[k] = <<>>)
            /\ \A k \in 1..Len(Ms1Sticks.hx) : (k % 3 = 0) <=> (Ms1Sticks.hx[k] = <<>>)

(* C19's case: a spectrum with a highlighted peak and, at exactly 0.1 Da of *)
(* the highlight value, a normal one.                                       *)
C19_SticksSeen ==
    /\ spectrumData # Null
    /\ spectrumData.mzs = <<Precursor, Precursor + 10>>
    /\ spectrumData.ints = <<5, 8>>
    /\ spectrumData.has_ms2 = <<Precursor>>
    /\ Ms1Sticks = [x |-> TripletX(Precursor + 10), y |-> TripletY(8),
                    hx |-> TripletX(Precursor), hy |-> TripletY(5)]

(* A stored dataset has arrays of equal length. *)
AlignedSpectrum(d) == d # Null => Len(d.mzs) = Len(d.ints)
AlignedChrom(d) == d # Null => Len(d.x) = Len(d.y)

(* C20: every spectrum, fragment spectrum and chromatogram stored in the    *)
(* state has index-aligned arrays of equal length.                          *)
C20_StoredArraysAligned ==
    /\ AlignedSpectrum(spectrumData)
    /\ AlignedSpectrum(ms2Data)
    /\ AlignedChrom(ticData)
    /\ AlignedChrom(chromData)

(* The MS1 requests a step sent, as (kind, retention time). *)
SentRts(l) == {r.rt : r \in {q \in l.sent : q.kind = "ms1"}}
OnlySpectrumSent(l) == \A r \in l.sent : r.kind = "ms1"

(* The row an arrow key moves to from index c in a list of N scans. *)
KeyTarget(key, N, c) == IF key = "ArrowRight" THEN Min(N - 1, c + 1) ELSE Max(0, c - 1)

(* C21: with a non-empty scan list and a current index c >= 0, ArrowRight   *)
(* requests scan min(N-1, c+1) and ArrowLeft scan max(0, c-1), with that    *)
(* row's retention time; at the end of the list the key sends nothing and   *)
(* changes nothing; with an empty list no key sends a request.              *)
C21_ArrowKeysClamped ==
    [][(last'.op = "key" /\ last'.arg \in {"ArrowRight", "ArrowLeft"})
        => LET N == Len(scanList)
               c == currentScanIdx
               target == KeyTarget(last'.arg, N, c)
           IN  /\ N = 0 => last'.sent = {}
               /\ (N > 0 /\ c >= 0 /\ target = c)
                     => (last'.sent = {} /\ Cur' = Cur)
               /\ (N > 0 /\ c >= 0 /\ target # c)
                     => /\ Cardinality(last'.sent) = 1
                        /\ OnlySpectrumSent(last')
                        /\ SentRts(last') = {scanList[target + 1].rt}]_vars

(* C21's case: ArrowRight from a current scan that is not the last one has *)
(* requested the next scan.                                                *)
C21_NextScanRequested ==
    /\ last.op = "key" /\ last.arg = "ArrowRight"
    /\ currentScanIdx >= 1
    /\ SentRts(last) = {scanList[currentScanIdx + 1].rt}

(* C22: a non-empty scan list comes with a loaded total-ion chromatogram.  *)
C22_ScansImplyTic == Len(scanList) > 0 => ticData # Null

(* The stored points a selection of the samples q of chrom gives. *)
PointsOf(chrom, q) ==
    [x |-> [k \in 1..Len(q) |-> chrom.x[q[k]] \div 60],
     y |-> [k \in 1..Len(q) |-> chrom.y[q[k]]]]

(* C23: the integration window is the event's range when it has one, else  *)
(* the least and greatest x of its points; the samples integrated are the   *)
(* samples of the active chromatogram whose time in minutes lies in the     *)
(* window, both ends included, in their original order.                     *)
C23_WindowAndSamples ==
    (last.op = "selected" /\ last.arg.present) =>
        LET e == last.arg
            w == IF e.range # <<>> THEN e.range[1]
                 ELSE IF e.points # <<>> /\ e.points[1] # <<>>
                 THEN [lo |-> SeqMin(e.points[1]), hi |-> SeqMax(e.points[1])]
                 ELSE [lo |-> 1, hi |-> 0]
            inside == {i \in 1..Len(ActiveChrom.x) :
                          w.lo * 60 <= ActiveChrom.x[i] /\ ActiveChrom.x[i] <= w.hi * 60}
        IN  Cardinality(inside) >= 2 =>
                /\ integratedPoints = PointsOf(ActiveChrom, Ascending(inside))
                /\ \A k \in 1..Len(integratedPoints.x) :
                      w.lo <= integratedPoints.x[k] /\ integratedPoints.x[k] <= w.hi

(* C23's case: an event with a range of minute 1 only and points spanning   *)
(* the whole run has selected the two samples at minute 1.                  *)
C23_RangeBeforePoints ==
    /\ last.op = "selected"
    /\ last.arg.range = <<[lo |-> 1, hi |-> 1]>>
    /\ last.arg.points = <<<<0, MaxMin>>>>
    /\ Len(ActiveChrom.x) = 3
    /\ integratedPoints # Null
    /\ integratedPoints.x = <<1, 1>>

(* The clicked points (by position) that lie at less than 0.1 Da of a      *)
(* flagged precursor, and the flagged precursors (by position) at less     *)
(* than 0.1 Da of an m/z.                                                  *)
Hits(points, flagged) ==
    {k \in 1..Len(points) : \E j \in 1..Len(flagged) : Abs(flagged[j] - points[k]) < 10}
Near(flagged, mz) == {j \in 1..Len(flagged) : Abs(flagged[j] - mz) < 10}
Least(S) == CHOOSE m \in S : \A v \in S : m <= v

(* C24: a click on the MS1 view sends an MS2 request if and only if a file  *)
(* is selected and some clicked point lies at less than 0.1 Da of a flagged *)
(* precursor of the displayed spectrum; the request is then the only one,   *)
(* and carries the first flagged precursor that matches the first matching  *)
(* point, and the displayed spectrum's retention time.                      *)
C24_Ms1ClickFetch ==
    [][last'.op = "ms1Click"
        => LET points == last'.arg
               flagged == spectrumData.has_ms2
               hits == Hits(points, flagged)
           IN  /\ Cardinality(last'.sent) <= 1
               /\ (last'.sent # {}) <=> (selectedFile # NoFile /\ hits # {})
               /\ last'.sent # {} =>
                     last'.sent =
                         {[kind |-> "ms2", file |-> selectedFile,
                           precursor |-> flagged[Least(Near(flagged, points[Least(hits)]))],
                           rt |-> spectrumData.rt]}]_vars

(* C24's case: a click on the peak at P, with P + 0.09 flagged before P,    *)
(* has requested the MS2 spectrum of P + 0.09.                              *)
C24_FlaggedValueSent ==
    /\ last.op = "ms1Click" /\ last.arg = <<Precursor>>
    /\ spectrumData # Null /\ spectrumData.has_ms2 = <<Precursor + 9, Precursor>>
    /\ last.sent = {[kind |-> "ms2", file |-> "A", precursor |-> Precursor + 9, rt |-> 60]}

(* A click with no file selected has sent nothing. *)
C24_NoFileSeen ==
    /\ last.op = "ms1Click" /\ last.arg = <<Precursor>>
    /\ selectedFile = NoFile /\ spectrumData # Null
    /\ spectrumData.has_ms2 = <<Precursor>>

(* The time a chromatogram click resolves to: the x of the first clicked    *)
(* point that has one, else the inverse transform of the pointer position;  *)
(* <<>> when neither gives one.                                             *)
RECURSIVE FirstWithX(_)
FirstWithX(points) ==
    IF points = <<>> THEN <<>>
    ELSE IF Head(points) # <<>> THEN Head(points)
    ELSE FirstWithX(Tail(points))
Resolved(e) == IF FirstWithX(e.points) # <<>> THEN FirstWithX(e.points) ELSE e.p2c

(* C25: a chromatogram click that resolves to a time m >= 0 (minutes) sends *)
(* exactly one MS1 request, with rt = 60 * m; a click that resolves to no   *)
(* time or to a negative one sends nothing and changes nothing.             *)
C25_PlotClickResolves ==
    [][last'.op = "plotClick"
        => LET m == Resolved(last'.arg)
           IN  IF m # <<>> /\ m[1] >= 0
               THEN /\ Cardinality(last'.sent) = 1
                    /\ OnlySpectrumSent(last')
                    /\ SentRts(last') = {60 * m[1]}
               ELSE last'.sent = {} /\ Cur' = Cur]_vars

(* The y-axis maximum the MS1 pane derives. *)
Ms1MaxY == calculateMaxVisibleY(spectrumData.mzs, spectrumData.ints, msXRange)

(* The peaks of the displayed spectrum inside the MS1 zoom window. *)
Visible ==
    {i \in 1..Len(spectrumData.mzs) :
        msXRange = Null
            \/ (msXRange.lo <= spectrumData.mzs[i] /\ spectrumData.mzs[i] <= msXRange.hi)}
Greatest(S) == CHOOSE m \in S : \A v \in S : m >= v

(* C26: the derived y-axis maximum is the greatest intensity among the      *)
(* peaks inside the zoom window (all peaks when the window is null), and 1  *)
(* when there is no such peak or that intensity is not positive.            *)
C26_MaxVisibleY ==
    spectrumData # Null =>
        Ms1MaxY = IF Visible = {} THEN 1
                  ELSE LET top == Greatest({spectrumData.ints[i] : i \in Visible})
                       IN  IF top > 0 THEN top ELSE 1

(* C26, second part: with no negative intensity the derived maximum is the  *)
(* one above and is positive.                                               *)
C26_PositiveWhenNonNegative ==
    (spectrumData # Null /\ \A i \in 1..Len(spectrumData.ints) : spectrumData.ints[i] >= 0) =>
        /\ Ms1MaxY > 0
        /\ Ms1MaxY = IF Visible = {} THEN 1
                     ELSE LET top == Greatest({spectrumData.ints[i] : i \in Visible})
                          IN  IF top > 0 THEN top ELSE 1

C28_NoRetry ==
    [][last'.op \in DoneOps
        => LET r == last'.arg.r
               ok == last'.arg.ok
               sent == last'.sent
           IN  /\ \A q \in sent : q.kind # r.kind
               /\ sent # {} =>
                     \/ r.kind = "upload" /\ ok /\ sent = {TicReq(r.file, TRUE)}
                     \/ r.kind = "demo" /\ ok
                            /\ sent = {TicReq(DemoPath, FALSE), ScansReq(DemoPath, FALSE)}
                     \/ r.kind = "tic" /\ r.chain /\ sent = {ScansReq(r.file, TRUE)}
               /\ (~ok /\ ~(r.kind = "tic" /\ r.chain)) => sent = {}]_vars

(* C28's case: an MS1 fetch has failed with the session free to send more, *)
(* and nothing was sent.                                                   *)
C28_FailureSentNothing ==
    /\ last.op = "ms1Done" /\ ~last.arg.ok
    /\ last.sent = {}
    /\ budget > 0 /\ NInflight < MaxInflight
    /\ error = "Failed to fetch spectrum"

LoadingKinds == {"tic", "scans", "xic", "upload", "ms1"}

(* C29: loading is true while a TIC, scan-list, XIC, upload or MS1 request  *)
(* awaits its response, and ms2Loading is true while an MS2 request does.   *)
C29_LoadingWhilePending ==
    /\ (\E r \in Pending : r.kind \in LoadingKinds) => loading
    /\ (\E r \in Pending : r.kind = "ms2") => ms2Loading

(* C30: when every request is answered and the user stops issuing actions,  *)
(* loading and ms2Loading are eventually false and stay false.              *)
C30_FlagsEventuallyClear == <>[](~loading /\ ~ms2Loading)

(* C30, the converse: a flag is set only while a request of its kind awaits *)
(* its response, so it stays set forever only if a request is never         *)
(* answered.                                                                *)
C30_FlagSetOnlyWhilePending ==
    /\ loading => \E r \in Pending : r.kind # "ms2"
    /\ ms2Loading => \E r \in Pending : r.kind = "ms2"

(* C30's case: the session has sent all it may, an MS2 fetch was the last   *)
(* to be answered, and both flags are false.                                *)
C30_AllAnswered ==
    /\ inflight = EmptyBag /\ budget = 0
    /\ last.op = "ms2Done"
    /\ ~loading /\ ~ms2Loading

DataOps == {"ticDone", "scansDone", "xicDone", "ms1Done", "ms2Done"}

(* C31: every displayed dataset was fetched for the selected file: once a  *)
(* file is selected, a response that is stored answers a request issued    *)
(* for that file, never one issued for a file selected before.             *)
C31_NoStaleResponse ==
    (last.op \in DataOps /\ last.arg.ok /\ selectedFile # NoFile)
        => last.arg.r.file = selectedFile


(* C32: a displayed MS2 spectrum comes with a displayed MS1 spectrum, and   *)
(* was fetched for a flagged precursor of that MS1 spectrum, at its         *)
(* retention time.                                                          *)
C32_Ms2BelongsToMs1 ==
    ms2Data # Null =>
        /\ spectrumData # Null
        /\ ms2Data.rt = spectrumData.rt
        /\ \E k \in 1..Len(spectrumData.has_ms2) :
              spectrumData.has_ms2[k] = ms2Data.precursor_mz


----------------------------------------------------------------------------
(* The data requests a user makes of the exploration panes. *)
PaneOps == {"plotClick", "xic", "tableClick", "key", "ms1Click"}
ScanOps == {"tableClick", "key"}

(* C33: while no file is selected, a chromatogram click, an XIC            *)
(* extraction, a table or keyboard spectrum request and an MS1-peak click  *)
(* send no request and change no state, except that a table or keyboard    *)
(* request may set currentScanIdx.                                         *)
C33_InertWithoutFile ==
    [][(selectedFile = NoFile /\ last'.op \in PaneOps) =>
          /\ last'.sent = {}
          /\ inflight' = inflight
          /\ UNCHANGED <<selectedFile, ticData, chromData, spectrumData, ms2Data,
                         scanList, chromXRange, msXRange, ms2XRange, loading,
                         ms2Loading, error, plotRevision, integrationMode,
                         integratedArea, integratedPoints, targetMz, ppmTol, files>>
          /\ (last'.op \notin ScanOps => currentScanIdx' = currentScanIdx)]_vars


(* SpecUnselected: the panes while no file is selected (revision 1).  An   *)
(* upload made over file A while its TIC, its scan list, a chromatogram    *)
(* and a spectrum were being fetched has failed, and any of those          *)
(* responses has arrived since.                                            *)
Unselected(tic, chrom, spectrum, scans, requests) ==
    /\ rev = 1
    /\ selectedFile = NoFile
    /\ ticData = tic
    /\ chromData = chrom
    /\ spectrumData = spectrum
    /\ ms2Data = Null
    /\ scanList = scans
    /\ currentScanIdx = -1
    /\ chromXRange = Null
    /\ msXRange = Null
    /\ ms2XRange = Null
    /\ loading = FALSE
    /\ ms2Loading = FALSE
    /\ error = "Upload Error: Upload failed."
    /\ plotRevision = 1
    /\ integrationMode = FALSE
    /\ integratedArea = <<>>
    /\ integratedPoints = Null
    /\ targetMz = DefaultTargetMz
    /\ ppmTol = DefaultPpmTol
    /\ files = {}
    /\ keyFile = NoFile
    /\ inflight = EmptyBag
    /\ budget = requests
    /\ last = [op |-> "uploadDone", arg |-> Done(UploadReq("B"), FALSE), sent |-> {}]

InitUnselected ==
    /\ \E tic \in {Null, TicOf("A")} : \E chrom \in {Null, XicOf("A")} :
       \E spectrum \in {Null} \cup DisplayedSpectra : \E scans \in {<<>>, ScansOf("A")} :
          Unselected(tic, chrom, spectrum, scans, MaxViewRequests)
    /\ snap = SnapOff
NextUnselected == PlotClick \/ ExtractXic \/ TableClick \/ KeyDown \/ Ms1Click
SpecUnselected == InitUnselected /\ [][NextUnselected]_vars

(* A table row is clicked with no file selected: the index moves. *)
C33_RowClickedWithoutFile ==
    /\ selectedFile = NoFile /\ last.op = "tableClick"
    /\ last.sent = {} /\ currentScanIdx = last.arg /\ spectrumData = Null


----------------------------------------------------------------------------
(* SpecRevision: the chromatogram pane of a loaded file while files are    *)
(* selected, chromatograms extracted and left, scans and MS2 spectra       *)
(* opened and the chromatogram zoomed.                                     *)
InitRevision == Loaded(ScansOf("A"), MaxPaneRequests) /\ snap = SnapOff
NextRevision ==
    \/ ManualPathSubmit \/ FileSelect \/ TicDone \/ ScansDone
    \/ ExtractXic \/ XicDone \/ BackToTic \/ RelayoutChrom
    \/ TableClick \/ SpectrumDone \/ Ms1Click \/ Ms2Done
SpecRevision == InitRevision /\ [][NextRevision]_vars

RevisionOps == {"ticDone", "xicDone"}

(* C34: the plot revision counter never decreases: a successful TIC fetch  *)
(* and a successful XIC extraction add 1 to it, and no other step (failed  *)
(* fetches, spectrum and MS2 fetches, zoom notifications, Back to TIC)     *)
(* changes it.                                                             *)
C34_PlotRevisionSteps ==
    [][/\ plotRevision' >= plotRevision
       /\ plotRevision' = IF last'.op \in RevisionOps /\ last'.arg.ok
                          THEN plotRevision + 1 ELSE plotRevision]_vars

(* An XIC extraction succeeds after a TIC fetch succeeded: two bumps. *)
C34_BumpedTwice ==
    /\ last.op = "xicDone" /\ last.arg.ok
    /\ plotRevision = 3


----------------------------------------------------------------------------
(* SpecFrame: spectra fetched for a loaded file while the panes are        *)
(* zoomed and a peak is integrated.  The session starts with the spectrum  *)
(* of scan 0 on display, one precursor flagged.                            *)
PeakSelections ==
    {[present |-> TRUE, points |-> <<>>, range |-> <<[lo |-> 0, hi |-> MaxMin]>>],
     [present |-> FALSE, points |-> <<>>, range |-> <<>>]}

(* A box selection around the whole chromatogram, or one that is taken     *)
(* back.                                                                   *)
SelectPeak ==
    /\ integrationMode /\ activeChromData(Cur) # Null
    /\ \E e \in PeakSelections : Step("selected", e, calculateIntegration(Cur, Cur, e))

InitFrame ==
    /\ \E spectrum \in {d \in DisplayedSpectra : d.has_ms2 = <<Precursor>>} :
          Displayed("A", spectrum, MaxViewRequests)
    /\ snap = SnapOff
NextFrame ==
    \/ TableClick \/ SpectrumDone \/ Ms1Click \/ Ms2Done
    \/ RelayoutChrom \/ RelayoutMs1 \/ RelayoutMs2
    \/ ToggleIntegration \/ SelectPeak
SpecFrame == InitFrame /\ [][NextFrame]_vars

(* C35: a successful MS1 fetch sets the MS1 zoom window to null and leaves *)
(* the chromatogram zoom window, the active chromatogram, the integration  *)
(* mode and the integration result as they were; a failed MS1 fetch leaves *)
(* the three zoom windows as they were.                                    *)
C35_Ms1FetchFrame ==
    [][last'.op = "ms1Done" =>
          IF last'.arg.ok
          THEN /\ msXRange' = Null
               /\ activeChromData(Cur)' = activeChromData(Cur)
               /\ UNCHANGED <<chromXRange, integrationMode, integratedArea,
                              integratedPoints>>
          ELSE UNCHANGED <<chromXRange, msXRange, ms2XRange>>]_vars

(* A spectrum arrives while the MS1 pane and the chromatogram are zoomed   *)
(* and a peak is integrated: only the MS1 window is reset.                 *)
C35_ResetUnderIntegration ==
    /\ last.op = "ms1Done" /\ last.arg.ok
    /\ msXRange = Null /\ chromXRange # Null
    /\ integrationMode /\ integratedArea # <<>> /\ integratedPoints # Null
    /\ snap.tag = "off"


----------------------------------------------------------------------------
UploadErrors == {"Upload Error: Upload failed."}

(* C36: when a file upload has failed, no TIC or scan-list request was     *)
(* issued, no file is selected, the TIC, the XIC, the MS1 spectrum and the *)
(* scan list are cleared with currentScanIdx = -1, the error message       *)
(* begins with 'Upload Error: ' and loading is false.                      *)
C36_FailedUploadLeavesCleared ==
    (last.op = "uploadDone" /\ ~last.arg.ok) =>
        /\ last.sent = {}
        /\ selectedFile = NoFile
        /\ ticData = Null /\ chromData = Null /\ spectrumData = Null
        /\ scanList = <<>> /\ currentScanIdx = -1
        /\ error \in UploadErrors
        /\ loading = FALSE

(* The step of the failure itself: it sends nothing, sets the error and    *)
(* clears loading, and leaves the file and the data as they are.           *)
C36_FailureStep ==
    [][(last'.op = "uploadDone" /\ ~last'.arg.ok) =>
          /\ last'.sent = {}
          /\ error' \in UploadErrors /\ loading' = FALSE
          /\ UNCHANGED <<selectedFile, ticData, chromData, spectrumData, scanList,
                         currentScanIdx>>]_vars


----------------------------------------------------------------------------
ArrowKeys == {"ArrowRight", "ArrowLeft"}

(* C37: with a non-empty scan list and currentScanIdx = -1, ArrowRight and *)
(* ArrowLeft both set currentScanIdx to 0 and send one MS1 request, with   *)
(* the retention time of scan 0.                                           *)
C37_FirstKeyOpensScanZero ==
    [][(last'.op = "key" /\ last'.arg \in ArrowKeys
            /\ scanList # <<>> /\ currentScanIdx = -1)
        => /\ currentScanIdx' = 0
           /\ OnlySpectrumSent(last')
           /\ SentRts(last') = {scanList[1].rt}]_vars


----------------------------------------------------------------------------
(* C38: a table-row click or an arrow-key step to index idx sets           *)
(* currentScanIdx to idx in the same step, before the fetch resolves (the  *)
(* displayed spectrum is still the old one), and sends one MS1 request     *)
(* with scanList[idx].rt; a request with idx < 0 or idx >= N changes no    *)
(* state and sends nothing.                                                *)
C38_IndexSetWithRequest ==
    [][LET N == Len(scanList)
           isRow == last'.op = "tableClick"
           isKey == /\ last'.op = "key" /\ last'.arg \in ArrowKeys /\ N > 0
                    /\ KeyTarget(last'.arg, N, currentScanIdx) # currentScanIdx
           idx == IF isRow THEN last'.arg
                  ELSE KeyTarget(last'.arg, N, currentScanIdx)
       IN  (isRow \/ isKey) =>
              IF idx >= 0 /\ idx < N
              THEN /\ currentScanIdx' = idx
                   /\ spectrumData' = spectrumData
                   /\ OnlySpectrumSent(last')
                   /\ SentRts(last') = {scanList[idx + 1].rt}
              ELSE last'.sent = {} /\ Cur' = Cur]_vars

=============================================================================
